---- MODULE Spec2Model ----
(***************************************************************************)
(* Model of the native resource tracers of eth/tracers/native:             *)
(*   cycleTracer   (cycles.go)   opcode / cpu cycles / gas cost            *)
(*   timingTracer  (timing.go)   opcode / wall time  / gas cost            *)
(*   storageTracer (storage.go)  process I/O rates                         *)
(*   memoryTracer  (memory.go)   heap statistics, buffered in a CSV file   *)
(*   memoryTransactionTracer     heap statistics at start and end of a run *)
(* One tracer instance is constructed (kind) and then driven by the EVM,   *)
(* which invokes CaptureTxStart, CaptureStart, CaptureState*, CaptureEnd,  *)
(* CaptureTxEnd in this order; CaptureFault, Stop and GetResult may be     *)
(* invoked by the host in between.                                         *)
(*                                                                         *)
(* A CSV text is represented as the sequence of its lines (each line is    *)
(* the record joined by "," and is terminated by a line break in the       *)
(* file); the empty text "" is the empty sequence.  Go ints are 64 bit;    *)
(* the gas values of the model stay far below 2^63, so no width is kept.   *)
(***************************************************************************)
EXTENDS Integers, Sequences, FiniteSets, TLC

\* ---------------------------------------------------------------- bounds
MaxOps == 3            \* CaptureState calls per transaction (cycle, timing, storage)
MaxMemOps == 101       \* CaptureState calls per transaction (memoryTracer)
MaxClock == 1          \* the wall clock runs 0..MaxClock
MaxPerfFailures == 1   \* failing reads of the cycle counter per transaction
MaxSharedOps == 2      \* CaptureState calls of each of two memoryTracer instances

\* ---------------------------------------------------------------- inputs
Gas == {0, 1, 2}       \* the gas argument of CaptureState and CaptureTxEnd
Budgets == {2, 3}      \* the gasLimit argument of CaptureTxStart
CycleReading == 7      \* what a successful read of the cycle counter returns
FailedReading == 0     \* pv.Value when perf.StopCPUCycles fails: the zero value
Costs == {1, 2}        \* the cost argument of CaptureState
Rates == {0, 1}        \* the rates the process metrics compute
OpCodes == {1, 2}                \* vm.ADD = 0x01, vm.MUL = 0x02
Kinds == {"cycleTracer", "timingTracer", "storageTracer", "memoryTracer",
          "memoryTransactionTracer"}

VARIABLES
  kind,      \* the tracer constructed through the registry
  phase,     \* the position of the EVM in the callback sequence
  cyc,       \* the cycleTracer struct
  tim,       \* the timingTracer struct
  sto,       \* the storageTracer struct
  mem,       \* the memoryTracer struct
  fs,        \* the file memoryTracer.csvFileName: its lines, or NoFile
  now,       \* the wall clock (time.Now)
  call,      \* the last call made on the tracer: name, arguments, return value
  stopped,   \* Stop has been called
  halted,    \* the process has exited (log.Fatalf)
  gasArgs,   \* history: the gas arguments given to the cycleTracer, and the
             \* restGas given to CaptureTxEnd
  inst,      \* two memoryTracer instances that trace in the same process
  config,    \* the configuration message given to the constructor
  mtt        \* the memoryTransactionTracer struct

vars == <<kind, phase, cyc, tim, sto, mem, fs, now, call, stopped, halted, gasArgs, inst,
          config, mtt>>

NoFile == "ENOENT"
NoGas == 0 - 1

\* ---------------------------------------------------------------- strings
Digit(d) ==
  CASE d = 0 -> "0" [] d = 1 -> "1" [] d = 2 -> "2" [] d = 3 -> "3" [] d = 4 -> "4"
    [] d = 5 -> "5" [] d = 6 -> "6" [] d = 7 -> "7" [] d = 8 -> "8" [] d = 9 -> "9"

RECURSIVE Utoa(_)
Utoa(n) == IF n < 10 THEN Digit(n) ELSE Utoa(n \div 10) \o Digit(n % 10)

\* strconv.Itoa
Itoa(n) == IF n < 0 THEN "-" \o Utoa(0 - n) ELSE Utoa(n)

\* strconv.FormatFloat(f, 'f', -1, 64) on the integral rates of the model
FormatFloat(f) == Itoa(f)

\* vm.OpCode.String
OpString(op) ==
  CASE op = 1 -> "ADD" [] op = 2 -> "MUL" [] op = 3 -> "SUB"

\* csv.Writer.Write: the fields joined by ","; no field of the model holds a
\* comma, a quote or a line break, so none is quoted.
RECURSIVE JoinFields(_)
JoinFields(row) ==
  IF Len(row) = 0 THEN ""
  ELSE IF Len(row) = 1 THEN row[1]
  ELSE row[1] \o "," \o JoinFields(Tail(row))

\* json.Marshal of a Go string: a JSON string scalar holding the text; it
\* cannot fail.
jsonMarshal(text) == [json |-> "string", lines |-> text]

NoRet == [value |-> jsonMarshal(<<>>), err |-> "void"]

Call(name, perfErr, ret) == [name |-> name, perfErr |-> perfErr, ret |-> ret]

RECURSIVE Sum(_)
Sum(s) == IF Len(s) = 0 THEN 0 ELSE s[1] + Sum(Tail(s))

\* ---------------------------------------------------------------- cycleTracer
\* starts, stops and peak describe the cycle counters of the perf library:
\* the calls of perf.StartCPUCycles and perf.StopCPUCycles so far, and the
\* largest number of counters that were open at once
newCycleTracer ==
  [opcodes |-> <<>>, cycles |-> <<>>, cost |-> <<>>, remainingGas |-> 0,
   measuring |-> FALSE, starts |-> 0, stops |-> 0, peak |-> 0]

\* startMeasuring: opens a new counter and stores its handle; a failure is
\* only printed.
startMeasuring(t) ==
  LET open == t.starts + 1 - t.stops
  IN  [t EXCEPT !.measuring = TRUE, !.starts = @ + 1,
                !.peak = IF open > @ THEN open ELSE @]

\* cycles.go:75 and cycles.go:122: perf.StopCPUCycles(t.cb, t.fd) closes the
\* counter that startMeasuring opened
stopMeasuring(t) == [t EXCEPT !.stops = @ + 1]

\* a cost window that records a delta on the first call too
CycleObserveAlways(t, gas) ==
  [t EXCEPT !.cost = Append(t.cost, t.remainingGas - gas), !.remainingGas = gas]

\* a cost window that subtracts the wrong way round
CycleObserveReversed(t, gas) ==
  IF t.remainingGas = 0
  THEN [t EXCEPT !.remainingGas = gas]
  ELSE [t EXCEPT !.cost = Append(t.cost, gas - t.remainingGas), !.remainingGas = gas]

\* cycles.go:82-88, the cost window: remainingGas = 0 means "not set yet"
CycleObserve(t, gas) ==
  IF t.remainingGas = 0
  THEN [t EXCEPT !.remainingGas = gas]
  ELSE [t EXCEPT !.cost = Append(t.cost, t.remainingGas - gas), !.remainingGas = gas]

\* a CaptureState that completes its own row: opcode, cycles and cost at once
CycleCaptureStateRowwise(t, op, gas, pvValue) ==
  startMeasuring([stopMeasuring(t) EXCEPT !.cost = Append(t.cost, t.remainingGas - gas),
                           !.remainingGas = gas,
                           !.cycles = Append(t.cycles, pvValue),
                           !.opcodes = Append(t.opcodes, op)])

\* a CaptureState that opens the next counter before it reads the open one
CycleCaptureStateStartFirst(t, op, gas, pvValue) ==
  LET t0 == startMeasuring(t)
      t1 == CycleObserve(t0, gas)
      t2 == [t1 EXCEPT !.cycles = Append(t1.cycles, pvValue)]
      t3 == [t2 EXCEPT !.opcodes = Append(t2.opcodes, op)]
  IN  stopMeasuring(t3)

\* cycles.go:74-93; pvValue is the reading perf.StopCPUCycles returned.
CycleCaptureStateT(t, op, gas, pvValue) ==
  LET t0 == stopMeasuring(t)
      t1 == CycleObserve(t0, gas)
      t2 == [t1 EXCEPT !.cycles = Append(t1.cycles, pvValue)]
      t3 == [t2 EXCEPT !.opcodes = Append(t2.opcodes, op)]
  IN  startMeasuring(t3)

\* a CaptureTxEnd that flushes only when a boundary was recorded
CycleCaptureTxEndIfSampled(t, restGas) ==
  IF Len(t.opcodes) = 0 THEN stopMeasuring([t EXCEPT !.measuring = FALSE])
  ELSE stopMeasuring([t EXCEPT !.cost = Append(t.cost, t.remainingGas - restGas),
                               !.measuring = FALSE])

\* a CaptureTxEnd that subtracts the wrong way round
CycleCaptureTxEndReversed(t, restGas) ==
  stopMeasuring([t EXCEPT !.cost = Append(t.cost, restGas - t.remainingGas),
                          !.measuring = FALSE])

\* cycles.go:120-123
CycleCaptureTxEndT(t, restGas) ==
  stopMeasuring([t EXCEPT !.cost = Append(t.cost, t.remainingGas - restGas),
                          !.measuring = FALSE])

\* a rendering whose first column is named in the singular
CyclesToCSVSingular(opcodes, cycles, cost) ==
  IF Len(opcodes) # Len(cycles) \/ Len(cycles) # Len(cost)
  THEN [text |-> <<>>, err |-> "all slices must have the same length"]
  ELSE [text |-> <<JoinFields(<<"opcode", "cycles", "cost">>)>> \o
                 [i \in 1..Len(opcodes) |->
                    JoinFields(<<OpString(opcodes[i]), Itoa(cycles[i]), Itoa(cost[i])>>)],
        err |-> "nil"]

\* cycles.go:143-182
CyclesToCSV(opcodes, cycles, cost) ==
  IF Len(opcodes) # Len(cycles) \/ Len(cycles) # Len(cost)
  THEN [text |-> <<>>, err |-> "all slices must have the same length"]
  ELSE [text |-> <<JoinFields(<<"opcodes", "cycles", "cost">>)>> \o
                 [i \in 1..Len(opcodes) |->
                    JoinFields(<<OpString(opcodes[i]), Itoa(cycles[i]), Itoa(cost[i])>>)],
        err |-> "nil"]

\* cycles.go:126-137: the error of CyclesToCSV is overwritten by the error of
\* json.Marshal, which is nil.
CycleGetResult(t) ==
  LET csvData == CyclesToCSV(t.opcodes, t.cycles, t.cost)
  IN  [value |-> jsonMarshal(csvData.text), err |-> "nil"]

\* a GetResult that hands the series over and starts afresh
CycleAfterGetResultReset(t) == newCycleTracer

\* the tracer after GetResult: GetResult assigns no field
CycleAfterGetResult(t) == t

\* ---------------------------------------------------------------- OpcodeCosts
NewOpcodeCosts == [o \in {} |-> 0]

\* an AddOpcode that updates the cost of an opcode already in the map
AddOpcodeOverwrite(oc, opcode, cost) ==
  [o \in DOMAIN oc \cup {opcode} |-> IF o = opcode THEN cost ELSE oc[o]]

\* cycles.go:199-207: the cost of an opcode already in the map is kept
AddOpcode(oc, opcode, cost) ==
  IF opcode \in DOMAIN oc THEN oc
  ELSE [o \in DOMAIN oc \cup {opcode} |-> IF o = opcode THEN cost ELSE oc[o]]

\* cycles.go:210-213
GetCost(oc, opcode) ==
  IF opcode \in DOMAIN oc THEN [cost |-> oc[opcode], exists |-> TRUE]
  ELSE [cost |-> 0, exists |-> FALSE]

\* cycles.go:215-218
AddAndGetCost(oc, opcode, cost) ==
  LET oc1 == AddOpcode(oc, opcode, cost)
      got == GetCost(oc1, opcode)
  IN  [costs |-> oc1, cost |-> got.cost, exists |-> got.exists]

\* ---------------------------------------------------------------- timingTracer
\* timing.go:47-56: cost is left nil, which appends and measures like empty
newTimingTracer ==
  [opcodes |-> <<>>, timings |-> <<>>, cost |-> <<>>, time |-> 0,
   remainingGas |-> 0, opcodeCosts |-> NewOpcodeCosts]

\* timing.go:71-82: the recorded cost is the first cost seen for the opcode
TimingObserve(t, op, gas, cost) ==
  IF t.remainingGas = 0
  THEN [t EXCEPT !.remainingGas = gas]
  ELSE LET got == AddAndGetCost(t.opcodeCosts, op, cost)
           adaptedCost == IF got.exists THEN got.cost ELSE 1
       IN  [t EXCEPT !.opcodeCosts = got.costs,
                     !.cost = Append(t.cost, adaptedCost),
                     !.remainingGas = gas]

\* a CaptureState that keeps measuring from the start of the run
TimingCaptureStateFromStart(t, op, gas, cost, since, after) ==
  LET elapsedTime == since - t.time
      t1 == TimingObserve(t, op, gas, cost)
      t2 == [t1 EXCEPT !.timings = Append(t1.timings, elapsedTime)]
  IN  [t2 EXCEPT !.opcodes = Append(t2.opcodes, op)]

\* timing.go:69-87; since is the clock at time.Since, after the clock at the
\* closing time.Now
TimingCaptureStateT(t, op, gas, cost, since, after) ==
  LET elapsedTime == since - t.time
      t1 == TimingObserve(t, op, gas, cost)
      t2 == [t1 EXCEPT !.timings = Append(t1.timings, elapsedTime)]
      t3 == [t2 EXCEPT !.opcodes = Append(t2.opcodes, op)]
  IN  [t3 EXCEPT !.time = after]

\* timing.go:105-107
TimingCaptureTxEndT(t, restGas) ==
  [t EXCEPT !.cost = Append(t.cost, t.remainingGas - restGas)]

\* timing.go:125-164
TimingDataToCSV(opcodes, timings, cost) ==
  IF Len(opcodes) # Len(timings) \/ Len(timings) # Len(cost)
  THEN [text |-> <<>>, err |-> "all slices must have the same length"]
  ELSE [text |-> <<JoinFields(<<"opcodes", "time", "cost">>)>> \o
                 [i \in 1..Len(opcodes) |->
                    JoinFields(<<OpString(opcodes[i]), Itoa(timings[i]), Itoa(cost[i])>>)],
        err |-> "nil"]

\* timing.go:109-119: the error of TimingDataToCSV is overwritten
TimingGetResult(t) ==
  LET csvData == TimingDataToCSV(t.opcodes, t.timings, t.cost)
  IN  [value |-> jsonMarshal(csvData.text), err |-> "nil"]

\* the tracer after GetResult: GetResult assigns no field
TimingAfterGetResult(t) == t

\* ---------------------------------------------------------------- storageTracer
newStorageTracer ==
  [pMetrics |-> FALSE, IOReadBytes |-> <<>>, IOWriteBytes |-> <<>>, IOUsage |-> <<>>]

\* storage.go:62-74
createProcessStats(t) == [t EXCEPT !.pMetrics = TRUE]

\* a sample that records the read rate as the usage
readProcessStatsReadUsage(t, rd, wr) ==
  [t EXCEPT !.IOReadBytes = Append(t.IOReadBytes, rd),
            !.IOWriteBytes = Append(t.IOWriteBytes, wr),
            !.IOUsage = Append(t.IOUsage, rd)]

\* a sample that keeps only the latest reading
readProcessStatsLatest(t, rd, wr) ==
  [t EXCEPT !.IOReadBytes = <<rd>>, !.IOWriteBytes = <<wr>>, !.IOUsage = <<rd + wr>>]

\* storage.go:76-83; rd and wr are the rates the collected metrics compute
readProcessStats(t, rd, wr) ==
  [t EXCEPT !.IOReadBytes = Append(t.IOReadBytes, rd),
            !.IOWriteBytes = Append(t.IOWriteBytes, wr),
            !.IOUsage = Append(t.IOUsage, rd + wr)]

\* storage.go:148-183
ArraysToCSV(ioReadBytes, ioWriteBytes, ioUsage) ==
  IF Len(ioReadBytes) # Len(ioWriteBytes) \/ Len(ioWriteBytes) # Len(ioUsage)
  THEN [text |-> <<>>, err |-> "all input slices should have the same length"]
  ELSE [text |-> <<JoinFields(<<"IOReadBytes", "IOWriteBytes", "IOUsage">>)>> \o
                 [i \in 1..Len(ioReadBytes) |->
                    JoinFields(<<FormatFloat(ioReadBytes[i]), FormatFloat(ioWriteBytes[i]),
                                 FormatFloat(ioUsage[i])>>)],
        err |-> "nil"]

\* storage.go:131-142: the error of ArraysToCSV is overwritten
StorageGetResult(t) ==
  LET csvString == ArraysToCSV(t.IOReadBytes, t.IOWriteBytes, t.IOUsage)
  IN  [value |-> jsonMarshal(csvString.text), err |-> "nil"]

\* the tracer after GetResult: GetResult assigns no field
StorageAfterGetResult(t) == t

\* ---------------------------------------------------------------- memoryTracer
Resolution == 100

newMemoryTracer ==
  [opCounter |-> 0, resolution |-> Resolution, csvFileName |-> "memoryStats.csv"]

\* the configuration messages a trace request may carry: none, or a
\* resolution
NoConfig == [given |-> FALSE, resolution |-> 0]
Configs == {NoConfig, [given |-> TRUE, resolution |-> 0], [given |-> TRUE, resolution |-> 1]}

\* memory.go:47-53: the configuration argument is the blank identifier; the
\* constructor returns the tracer and a nil error
NewTracer(cfg) == [tracer |-> newMemoryTracer, err |-> "nil"]

\* memory.go:125-127
bToMb(b) == (b \div 1024) \div 1024

\* the heap sizes runtime.ReadMemStats may report, in bytes
MemBytes == {0, 1024 * 1024 - 1, 2 * 1024 * 1024 - 1}

\* runtime.MemStats with heap size b
MemStats(b) ==
  [HeapAlloc |-> b, HeapSys |-> b, HeapIdle |-> 0, HeapInuse |-> b,
   StackInuse |-> 0, StackSys |-> 0]

\* memory.go:63-80: creates or truncates the file and writes the header
createCSV(file) ==
  [file |-> <<JoinFields(<<"heapAlloc", "heapSys", "heapIdle", "heapInuse",
                           "stackInUse", "stackSys">>)>>,
   err |-> "nil"]

\* memory.go:82-109: the file is opened without O_CREATE
addMemStatsToCSV(file, m) ==
  IF file = NoFile THEN [file |-> file, err |-> NoFile]
  ELSE [file |-> Append(file,
                   JoinFields(<<Itoa(bToMb(m.HeapAlloc)), Itoa(bToMb(m.HeapSys)),
                                Itoa(bToMb(m.HeapIdle)), Itoa(bToMb(m.HeapInuse)),
                                Itoa(bToMb(m.StackInuse)), Itoa(bToMb(m.StackSys))>>)),
        err |-> "nil"]

\* a finalization that reads the file and leaves it in place
getCSVAsStringAndKeep(file) ==
  IF file = NoFile THEN [text |-> <<>>, file |-> file, err |-> NoFile]
  ELSE [text |-> file, file |-> file, err |-> "nil"]

\* memory.go:111-123
getCSVAsStringAndDelete(file) ==
  IF file = NoFile THEN [text |-> <<>>, file |-> file, err |-> NoFile]
  ELSE [text |-> file, file |-> NoFile, err |-> "nil"]

\* a gate that opens on the last call of each window instead of the first
ShouldSampleAfter(t) == 0 = (t.opCounter + 1) % t.resolution

\* memory.go:159, the resolution gate
ShouldSample(t) == 0 = t.opCounter % t.resolution

\* a counter that counts the samples instead of the calls
AdvanceOnSample(t) ==
  IF ShouldSample(t) THEN [t EXCEPT !.opCounter = t.opCounter + 1] ELSE t

\* memory.go:165
Advance(t) == [t EXCEPT !.opCounter = t.opCounter + 1]

\* memory.go:189-199: the error of getCSVAsStringAndDelete is overwritten
MemoryGetResult(file) ==
  LET got == getCSVAsStringAndDelete(file)
  IN  [value |-> jsonMarshal(got.text), err |-> "nil", file |-> got.file]

\* ---------------------------------------------------------------- memoryTransactionTracer
\* part_000:191-200
newMemoryTransactionTracer ==
  [heapAllocList |-> <<>>, heapSysList |-> <<>>, heapIdleList |-> <<>>,
   heapInuseList |-> <<>>, stackInUseList |-> <<>>, stackSysList |-> <<>>,
   memStats |-> MemStats(0)]

\* part_000:218-227; b is the heap size runtime.ReadMemStats reports
getHeapAndStackMetrics(t, b) ==
  LET m == MemStats(b)
  IN  [t |-> [t EXCEPT !.memStats = m],
       heapAlloc |-> bToMb(m.HeapAlloc), heapSys |-> bToMb(m.HeapSys),
       heapIdle |-> bToMb(m.HeapIdle), heapInuse |-> bToMb(m.HeapInuse),
       stackInUse |-> bToMb(m.StackInuse), stackSys |-> bToMb(m.StackSys)]

\* a sample that leaves the stack lists out
addHeapProfileHeapOnly(t, b) ==
  LET got == getHeapAndStackMetrics(t, b)
  IN  [got.t EXCEPT !.heapAllocList = Append(@, got.heapAlloc),
                    !.heapSysList = Append(@, got.heapSys),
                    !.heapIdleList = Append(@, got.heapIdle),
                    !.heapInuseList = Append(@, got.heapInuse)]

\* part_000:207-216
addHeapProfile(t, b) ==
  LET got == getHeapAndStackMetrics(t, b)
  IN  [got.t EXCEPT !.heapAllocList = Append(@, got.heapAlloc),
                    !.heapSysList = Append(@, got.heapSys),
                    !.heapIdleList = Append(@, got.heapIdle),
                    !.heapInuseList = Append(@, got.heapInuse),
                    !.stackInUseList = Append(@, got.stackInUse),
                    !.stackSysList = Append(@, got.stackSys)]

\* part_000:284-323
ListsToCSV(heapAllocList, heapSysList, heapIdleList, heapInuseList, stackInUseList, stackSysList) ==
  [text |-> <<JoinFields(<<"heapAllocList", "heapSysList", "heapIdleList",
                           "heapInuseList", "stackInUseList", "stackSysList">>)>> \o
            [i \in 1..Len(heapAllocList) |->
               JoinFields(<<Itoa(heapAllocList[i]), Itoa(heapSysList[i]),
                            Itoa(heapIdleList[i]), Itoa(heapInuseList[i]),
                            Itoa(stackInUseList[i]), Itoa(stackSysList[i])>>)],
   err |-> "nil"]

\* part_000:259-278: unlike the other tracers, a length mismatch is returned
\* as an error, with a nil result
MemoryTransactionGetResult(t) ==
  IF \/ Len(t.heapAllocList) # Len(t.stackInUseList)
     \/ Len(t.heapAllocList) # Len(t.heapSysList)
     \/ Len(t.heapAllocList) # Len(t.heapIdleList)
     \/ Len(t.heapAllocList) # Len(t.heapInuseList)
     \/ Len(t.heapAllocList) # Len(t.stackSysList)
  THEN [value |-> [json |-> "nil", lines |-> <<>>],
        err |-> "all lists must have the same length"]
  ELSE LET csvString == ListsToCSV(t.heapAllocList, t.heapSysList, t.heapIdleList,
                                   t.heapInuseList, t.stackInUseList, t.stackSysList)
       IN  IF csvString.err # "nil"
           THEN [value |-> [json |-> "nil", lines |-> <<>>], err |-> "Can not create csv"]
           ELSE [value |-> jsonMarshal(csvString.text), err |-> "nil"]

\* ---------------------------------------------------------------- state machine
\* the tracers the registry hands out for two concurrent trace requests
Instances == {1, 2}

\* an instance: its struct, its position in the callback sequence, the rows
\* its own callbacks sampled, and what its GetResult returned
NewInstance ==
  [t |-> newMemoryTracer, phase |-> "Created", sampled |-> <<>>, ret |-> NoRet]

HasCostWindow == kind \in {"cycleTracer", "timingTracer"}

\* the tracers that keep their series in memory and render them at GetResult
SeriesKinds == {"cycleTracer", "timingTracer", "storageTracer"}

Init ==
  /\ kind \in Kinds
  /\ config \in (IF kind = "memoryTracer" THEN Configs ELSE {NoConfig})
  /\ phase = "Created"
  /\ cyc = newCycleTracer
  /\ tim = newTimingTracer
  /\ sto = newStorageTracer
  /\ mem = NewTracer(config).tracer
  /\ fs = NoFile
  /\ now = 0
  /\ call = Call("new", FALSE, [value |-> jsonMarshal(<<>>), err |-> NewTracer(config).err])
  /\ stopped = FALSE
  /\ halted = FALSE
  /\ gasArgs = [start |-> NoGas, states |-> <<>>, rest |-> NoGas]
  /\ inst = [i \in Instances |-> NewInstance]
  /\ mtt = newMemoryTransactionTracer

\* CaptureTxStart is empty in every tracer (cycles.go:118, timing.go:103,
\* storage.go:126, memory.go:182, part_000:254).
CaptureTxStart ==
  /\ ~halted /\ phase = "Created"
  /\ \E gasLimit \in Budgets :
       gasArgs' = IF kind = "cycleTracer" THEN [gasArgs EXCEPT !.start = gasLimit]
                  ELSE gasArgs
  /\ call' = Call("CaptureTxStart", FALSE, NoRet)
  /\ phase' = "TxStarted"
  /\ UNCHANGED <<config, mtt, inst, kind, cyc, tim, sto, mem, fs, now, stopped, halted>>

\* cycles.go:64-66
\* perf.StopCPUCycles: the reading, given whether the read failed
StopCPUCycles(err2) == IF err2 THEN FailedReading ELSE CycleReading

\* the failed reads so far: a successful read never returns FailedReading
PerfFailures(t) == Cardinality({i \in 1..Len(t.cycles) : t.cycles[i] = FailedReading})

CycleCaptureStart ==
  /\ ~halted /\ kind = "cycleTracer" /\ phase = "TxStarted"
  /\ cyc' = startMeasuring(cyc)
  /\ phase' = "Started"
  /\ call' = Call("CaptureStart", FALSE, NoRet)
  /\ UNCHANGED <<config, mtt, inst, kind, tim, sto, mem, fs, now, stopped, halted, gasArgs>>

\* cycles.go:74-93
CycleCaptureState ==
  /\ ~halted /\ kind = "cycleTracer" /\ phase = "Started"
  /\ Len(cyc.opcodes) < MaxOps
  /\ \E op \in OpCodes, gas \in Gas, err2 \in BOOLEAN :
       /\ err2 => PerfFailures(cyc) < MaxPerfFailures
       /\ cyc' = CycleCaptureStateT(cyc, op, gas, StopCPUCycles(err2))
       /\ call' = Call("CaptureState", err2, NoRet)
       /\ gasArgs' = [gasArgs EXCEPT !.states = Append(@, gas)]
  /\ UNCHANGED <<config, mtt, inst, kind, phase, tim, sto, mem, fs, now, stopped, halted>>

\* cycles.go:69-71 and timing.go:64-66: CaptureEnd is empty
CaptureEndEmpty ==
  /\ ~halted /\ HasCostWindow /\ phase = "Started"
  /\ phase' = "Ended"
  /\ call' = Call("CaptureEnd", FALSE, NoRet)
  /\ UNCHANGED <<config, mtt, inst, kind, cyc, tim, sto, mem, fs, now, stopped, halted, gasArgs>>

\* cycles.go:120-123
CycleCaptureTxEnd ==
  /\ ~halted /\ kind = "cycleTracer" /\ phase = "Ended"
  /\ \E restGas \in Gas :
       /\ cyc' = CycleCaptureTxEndT(cyc, restGas)
       /\ call' = Call("CaptureTxEnd", FALSE, NoRet)
       /\ gasArgs' = [gasArgs EXCEPT !.rest = restGas]
  /\ phase' = "TxEnded"
  /\ UNCHANGED <<config, mtt, inst, kind, tim, sto, mem, fs, now, stopped, halted>>

\* cycles.go:126-137
CycleGetResultCall ==
  /\ ~halted /\ kind = "cycleTracer"
  /\ call' = Call("GetResult", FALSE, CycleGetResult(cyc))
  /\ cyc' = CycleAfterGetResult(cyc)
  /\ UNCHANGED <<config, mtt, inst, kind, phase, tim, sto, mem, fs, now, stopped, halted, gasArgs>>

\* timing.go:59-61
TimingCaptureStart ==
  /\ ~halted /\ kind = "timingTracer" /\ phase = "TxStarted"
  /\ \E t0 \in now..MaxClock :
       /\ t0 <= now + 1
       /\ now' = t0
       /\ tim' = [tim EXCEPT !.time = t0]
  /\ phase' = "Started"
  /\ call' = Call("CaptureStart", FALSE, NoRet)
  /\ UNCHANGED <<config, mtt, inst, kind, cyc, sto, mem, fs, stopped, halted, gasArgs>>

\* timing.go:69-87
TimingCaptureState ==
  /\ ~halted /\ kind = "timingTracer" /\ phase = "Started"
  /\ Len(tim.opcodes) < MaxOps
  /\ \E op \in OpCodes, gas \in Gas, cost \in Costs,
        since \in now..MaxClock, after \in now..MaxClock :
       /\ since <= now + 1 /\ since <= after /\ after <= since + 1
       /\ tim' = TimingCaptureStateT(tim, op, gas, cost, since, after)
       /\ now' = after
       /\ call' = Call("CaptureState", FALSE, NoRet)
  /\ UNCHANGED <<config, mtt, inst, kind, phase, cyc, sto, mem, fs, stopped, halted, gasArgs>>

\* timing.go:105-107
TimingCaptureTxEnd ==
  /\ ~halted /\ kind = "timingTracer" /\ phase = "Ended"
  /\ \E restGas \in Gas :
       /\ tim' = TimingCaptureTxEndT(tim, restGas)
       /\ call' = Call("CaptureTxEnd", FALSE, NoRet)
       /\ gasArgs' = [gasArgs EXCEPT !.rest = restGas]
  /\ phase' = "TxEnded"
  /\ UNCHANGED <<config, mtt, inst, kind, cyc, sto, mem, fs, now, stopped, halted>>

\* timing.go:109-119
TimingGetResultCall ==
  /\ ~halted /\ kind = "timingTracer"
  /\ call' = Call("GetResult", FALSE, TimingGetResult(tim))
  /\ tim' = TimingAfterGetResult(tim)
  /\ UNCHANGED <<config, mtt, inst, kind, phase, cyc, sto, mem, fs, now, stopped, halted, gasArgs>>

\* storage.go:98-101
StorageCaptureStart ==
  /\ ~halted /\ kind = "storageTracer" /\ phase = "TxStarted"
  /\ sto' = createProcessStats(sto)
  /\ phase' = "Started"
  /\ call' = Call("CaptureStart", FALSE, NoRet)
  /\ UNCHANGED <<config, mtt, inst, kind, cyc, tim, mem, fs, now, stopped, halted, gasArgs>>

\* storage.go:109-111
StorageCaptureState ==
  /\ ~halted /\ kind = "storageTracer" /\ phase = "Started"
  /\ Len(sto.IOUsage) < MaxOps
  /\ \E rd \in Rates, wr \in Rates : sto' = readProcessStats(sto, rd, wr)
  /\ call' = Call("CaptureState", FALSE, NoRet)
  /\ UNCHANGED <<config, mtt, inst, kind, phase, cyc, tim, mem, fs, now, stopped, halted, gasArgs>>

\* storage.go:104-106
StorageCaptureEnd ==
  /\ ~halted /\ kind = "storageTracer" /\ phase = "Started"
  /\ \E rd \in Rates, wr \in Rates : sto' = readProcessStats(sto, rd, wr)
  /\ phase' = "Ended"
  /\ call' = Call("CaptureEnd", FALSE, NoRet)
  /\ UNCHANGED <<config, mtt, inst, kind, cyc, tim, mem, fs, now, stopped, halted, gasArgs>>

\* storage.go:128, memory.go:184-186 and part_000:256: CaptureTxEnd is empty
CaptureTxEndEmpty ==
  /\ ~halted /\ ~HasCostWindow /\ phase = "Ended"
  /\ phase' = "TxEnded"
  /\ call' = Call("CaptureTxEnd", FALSE, NoRet)
  /\ UNCHANGED <<config, mtt, inst, kind, cyc, tim, sto, mem, fs, now, stopped, halted, gasArgs>>

\* storage.go:131-142
StorageGetResultCall ==
  /\ ~halted /\ kind = "storageTracer"
  /\ call' = Call("GetResult", FALSE, StorageGetResult(sto))
  /\ sto' = StorageAfterGetResult(sto)
  /\ UNCHANGED <<config, mtt, inst, kind, phase, cyc, tim, mem, fs, now, stopped, halted, gasArgs>>

\* memory.go:56-61: os.Create of the model cannot fail
MemoryCaptureStart ==
  /\ ~halted /\ kind = "memoryTracer" /\ phase = "TxStarted"
  /\ LET made == createCSV(fs)
     IN  /\ fs' = made.file
         /\ halted' = (made.err # "nil")
  /\ phase' = "Started"
  /\ call' = Call("CaptureStart", FALSE, NoRet)
  /\ UNCHANGED <<config, mtt, inst, kind, cyc, tim, sto, mem, now, stopped, gasArgs>>

\* memory.go:158-166: log.Fatalf ends the process before opCounter is advanced
MemoryCaptureState ==
  /\ ~halted /\ kind = "memoryTracer" /\ phase = "Started"
  /\ mem.opCounter < MaxMemOps
  /\ \E b \in MemBytes :
       LET added == IF ShouldSample(mem) THEN addMemStatsToCSV(fs, MemStats(b))
                    ELSE [file |-> fs, err |-> "nil"]
       IN  /\ fs' = added.file
           /\ halted' = (added.err # "nil")
           /\ mem' = IF added.err # "nil" THEN mem ELSE Advance(mem)
           /\ call' = Call("CaptureState", FALSE, NoRet)
  /\ UNCHANGED <<config, mtt, inst, kind, phase, cyc, tim, sto, now, stopped, gasArgs>>

\* memory.go:150-155
MemoryCaptureEnd ==
  /\ ~halted /\ kind = "memoryTracer" /\ phase = "Started"
  /\ \E b \in MemBytes :
       LET added == addMemStatsToCSV(fs, MemStats(b))
       IN  /\ fs' = added.file
           /\ halted' = (added.err # "nil")
  /\ phase' = "Ended"
  /\ call' = Call("CaptureEnd", FALSE, NoRet)
  /\ UNCHANGED <<config, mtt, inst, kind, cyc, tim, sto, mem, now, stopped, gasArgs>>

\* memory.go:189-199
MemoryGetResultCall ==
  /\ ~halted /\ kind = "memoryTracer"
  /\ LET got == MemoryGetResult(fs)
     IN  /\ call' = Call("GetResult", FALSE, [value |-> got.value, err |-> got.err])
         /\ fs' = got.file
  /\ UNCHANGED <<config, mtt, inst, kind, phase, cyc, tim, sto, mem, now, stopped, halted, gasArgs>>

\* a fault hook that forgets the gas of the last boundary
CaptureFaultClearsGas ==
  /\ ~halted
  /\ call' = Call("CaptureFault", FALSE, NoRet)
  /\ cyc' = [cyc EXCEPT !.remainingGas = 0]
  /\ tim' = [tim EXCEPT !.remainingGas = 0]
  /\ UNCHANGED <<config, mtt, inst, kind, phase, sto, mem, fs, now, stopped, halted, gasArgs>>

\* CaptureFault is empty in every tracer (cycles.go:105, timing.go:90,
\* storage.go:114, memory.go:169); the host may call it in any state.
CaptureFault ==
  /\ ~halted
  /\ call' = Call("CaptureFault", FALSE, NoRet)
  /\ UNCHANGED <<config, mtt, inst, kind, phase, cyc, tim, sto, mem, fs, now, stopped, halted, gasArgs>>

\* Stop is empty in every tracer (cycles.go:140, timing.go:122,
\* storage.go:145, memory.go:202); stopped only records that it was called.
Stop ==
  /\ ~halted /\ ~stopped
  /\ stopped' = TRUE
  /\ call' = Call("Stop", FALSE, NoRet)
  /\ UNCHANGED <<config, mtt, inst, kind, phase, cyc, tim, sto, mem, fs, now, halted, gasArgs>>

\* part_000:203-205
MemoryTransactionCaptureStart ==
  /\ ~halted /\ kind = "memoryTransactionTracer" /\ phase = "TxStarted"
  /\ \E b \in MemBytes : mtt' = addHeapProfile(mtt, b)
  /\ phase' = "Started"
  /\ call' = Call("CaptureStart", FALSE, NoRet)
  /\ UNCHANGED <<config, inst, kind, cyc, tim, sto, mem, fs, now, stopped, halted, gasArgs>>

\* part_000:237-239: the body is empty
MemoryTransactionCaptureState ==
  /\ ~halted /\ kind = "memoryTransactionTracer" /\ phase = "Started"
  /\ call' = Call("CaptureState", FALSE, NoRet)
  /\ UNCHANGED <<config, mtt, inst, kind, phase, cyc, tim, sto, mem, fs, now, stopped,
                 halted, gasArgs>>

\* part_000:232-234
MemoryTransactionCaptureEnd ==
  /\ ~halted /\ kind = "memoryTransactionTracer" /\ phase = "Started"
  /\ \E b \in MemBytes : mtt' = addHeapProfile(mtt, b)
  /\ phase' = "Ended"
  /\ call' = Call("CaptureEnd", FALSE, NoRet)
  /\ UNCHANGED <<config, inst, kind, cyc, tim, sto, mem, fs, now, stopped, halted, gasArgs>>

\* part_000:259-278
MemoryTransactionGetResultCall ==
  /\ ~halted /\ kind = "memoryTransactionTracer"
  /\ call' = Call("GetResult", FALSE, MemoryTransactionGetResult(mtt))
  /\ UNCHANGED <<config, mtt, inst, kind, phase, cyc, tim, sto, mem, fs, now, stopped,
                 halted, gasArgs>>

Next ==
  \/ CaptureTxStart
  \/ MemoryTransactionCaptureStart \/ MemoryTransactionCaptureState
  \/ MemoryTransactionCaptureEnd \/ MemoryTransactionGetResultCall
  \/ CycleCaptureStart \/ CycleCaptureState \/ CycleCaptureTxEnd \/ CycleGetResultCall
  \/ TimingCaptureStart \/ TimingCaptureState \/ TimingCaptureTxEnd \/ TimingGetResultCall
  \/ StorageCaptureStart \/ StorageCaptureState \/ StorageCaptureEnd \/ StorageGetResultCall
  \/ MemoryCaptureStart \/ MemoryCaptureState \/ MemoryCaptureEnd \/ MemoryGetResultCall
  \/ CaptureEndEmpty \/ CaptureTxEndEmpty \/ CaptureFault \/ Stop

Spec == Init /\ [][Next]_vars

\* ---------------------------------------------------------------- two instances
\* Two memoryTracer instances, each driven through CaptureStart,
\* CaptureState*, CaptureEnd and one GetResult, with their callbacks
\* interleaved.  Both were constructed with csvFileName "memoryStats.csv"
\* (memory.go:51), which names one file of the working directory: fs.
InitTwo == Init /\ kind = "memoryTracer"

\* memory.go:56-61
InstCaptureStart(i) ==
  /\ ~halted /\ inst[i].phase = "Created"
  /\ LET made == createCSV(fs)
     IN  /\ fs' = made.file
         /\ halted' = (made.err # "nil")
  /\ inst' = [inst EXCEPT ![i].phase = "Started"]
  /\ UNCHANGED <<config, mtt, kind, phase, cyc, tim, sto, mem, now, call, stopped, gasArgs>>

\* memory.go:158-166
InstCaptureState(i) ==
  /\ ~halted /\ inst[i].phase = "Started"
  /\ inst[i].t.opCounter < MaxSharedOps
  /\ \E b \in MemBytes :
       LET sample == ShouldSample(inst[i].t)
           added == IF sample THEN addMemStatsToCSV(fs, MemStats(b))
                    ELSE [file |-> fs, err |-> "nil"]
       IN  /\ fs' = added.file
           /\ halted' = (added.err # "nil")
           /\ inst' = IF added.err # "nil" THEN inst
                      ELSE [inst EXCEPT
                              ![i].t = Advance(@),
                              ![i].sampled =
                                 IF sample THEN Append(@, added.file[Len(added.file)])
                                 ELSE @]
  /\ UNCHANGED <<config, mtt, kind, phase, cyc, tim, sto, mem, now, call, stopped, gasArgs>>

\* memory.go:150-155
InstCaptureEnd(i) ==
  /\ ~halted /\ inst[i].phase = "Started"
  /\ \E b \in MemBytes :
       LET added == addMemStatsToCSV(fs, MemStats(b))
       IN  /\ fs' = added.file
           /\ halted' = (added.err # "nil")
           /\ inst' = IF added.err # "nil" THEN inst
                      ELSE [inst EXCEPT
                              ![i].phase = "Ended",
                              ![i].sampled = Append(@, added.file[Len(added.file)])]
  /\ UNCHANGED <<config, mtt, kind, phase, cyc, tim, sto, mem, now, call, stopped, gasArgs>>

\* memory.go:189-199
InstGetResult(i) ==
  /\ ~halted /\ inst[i].phase = "Ended"
  /\ LET got == MemoryGetResult(fs)
     IN  /\ fs' = got.file
         /\ inst' = [inst EXCEPT ![i].phase = "Done",
                                 ![i].ret = [value |-> got.value, err |-> got.err]]
  /\ UNCHANGED <<config, mtt, kind, phase, cyc, tim, sto, mem, now, call, stopped, halted, gasArgs>>

TwoNext ==
  \E i \in Instances :
    \/ InstCaptureStart(i) \/ InstCaptureState(i)
    \/ InstCaptureEnd(i) \/ InstGetResult(i)

TwoSpec == InitTwo /\ [][TwoNext]_vars

\* ---------------------------------------------------------------- properties
\* the series of the tracer in use: opcodes, measurements, cost
OpcodeSeries == IF kind = "cycleTracer" THEN cyc.opcodes ELSE tim.opcodes
Measurements == IF kind = "cycleTracer" THEN cyc.cycles ELSE tim.timings
CostSeries == IF kind = "cycleTracer" THEN cyc.cost ELSE tim.cost

LengthsEqual ==
  CASE kind = "cycleTracer" ->
         Len(cyc.opcodes) = Len(cyc.cycles) /\ Len(cyc.cycles) = Len(cyc.cost)
    [] kind = "timingTracer" ->
         Len(tim.opcodes) = Len(tim.timings) /\ Len(tim.timings) = Len(tim.cost)
    [] kind = "storageTracer" ->
         Len(sto.IOReadBytes) = Len(sto.IOWriteBytes) /\ Len(sto.IOWriteBytes) = Len(sto.IOUsage)
    [] OTHER -> TRUE

\* the lines of the table the last call returned
ReturnedLines == call.ret.value.lines

C2_AlignedAtResult ==
  (HasCostWindow /\ phase = "TxEnded" /\ call.name = "GetResult") => LengthsEqual

\* C3 as claimed: a GetResult of the cycleTracer, timingTracer or
\* storageTracer that finds series of different lengths returns a non-nil
\* error and no table data.
C3_MismatchIsAnError ==
  (kind \in SeriesKinds /\ call.name = "GetResult" /\ ~LengthsEqual)
  => (call.ret.err # "nil" /\ ReturnedLines = <<>>)

\* C4 as claimed: a GetResult of the cycleTracer or the timingTracer between
\* the first CaptureState and CaptureEnd returns, without error, a table with
\* the header and every row recorded so far.
C4_RunningResultHasAllRows ==
  (HasCostWindow /\ call.name = "GetResult" /\ phase = "Started" /\ Len(OpcodeSeries) >= 1)
  => (call.ret.err = "nil" /\ Len(ReturnedLines) = 1 + Len(OpcodeSeries))

\* the differences of consecutive gas values: g[i] - g[i+1]
Deltas(g) == [i \in 1..(Len(g) - 1) |-> g[i] - g[i + 1]]

\* C5 as claimed: the first CaptureState of the cycleTracer records no cost
\* and stores the gas; every later one appends storedGas - gas, for any gas
\* values (0 included), and stores the gas.
C5_CostIsEveryDelta ==
  (kind = "cycleTracer" /\ phase \in {"Started", "Ended"} /\ Len(gasArgs.states) >= 1)
  => /\ cyc.cost = Deltas(gasArgs.states)
     /\ cyc.remainingGas = gasArgs.states[Len(gasArgs.states)]

\* C6: CaptureTxEnd(restGas) of the cycleTracer and the timingTracer appends
\* exactly remainingGas - restGas to the cost series in every state in which
\* it is called, and appends nothing to the opcode or measurement series.
C6_TxEndFlushes ==
  [][(HasCostWindow /\ phase = "Ended" /\ phase' = "TxEnded")
     => /\ kind = "cycleTracer" =>
             /\ cyc'.cost = Append(cyc.cost, cyc.remainingGas - gasArgs'.rest)
             /\ cyc'.opcodes = cyc.opcodes /\ cyc'.cycles = cyc.cycles
        /\ kind = "timingTracer" =>
             /\ tim'.cost = Append(tim.cost, tim.remainingGas - gasArgs'.rest)
             /\ tim'.opcodes = tim.opcodes /\ tim'.timings = tim.timings]_vars

C6_Witness ==
  /\ kind = "cycleTracer" /\ call.name = "CaptureTxEnd"
  /\ Len(cyc.opcodes) = 0 /\ gasArgs.rest = 2 /\ cyc.cost = <<0 - 2>>

\* the gas values that were stored while the cost window was unset: the
\* first one and each one that follows a gas value of 0
RECURSIVE UnsetGasSum(_, _)
UnsetGasSum(g, stored) ==
  IF Len(g) = 0 THEN 0
  ELSE (IF stored = 0 THEN g[1] ELSE 0) + UnsetGasSum(Tail(g), g[1])

\* C7 as claimed: after CaptureTxStart(b0), CaptureStart, n >= 1 CaptureState
\* calls and CaptureTxEnd(r) of the cycleTracer, the cost column sums to b0 - r.
C7_CostSumsToBudgetSpent ==
  (kind = "cycleTracer" /\ phase = "TxEnded" /\ Len(gasArgs.states) >= 1)
  => Sum(cyc.cost) = gasArgs.start - gasArgs.rest

\* C7 amended: the cost column sums to the gas values stored while the cost
\* window was unset (the gas of the first boundary and of each boundary that
\* follows a boundary with gas 0) minus r; with no gas value of 0 this is
\* g1 - r, the gas at the first boundary minus the rest gas.
C7_CostSumsFromFirstBoundary ==
  (kind = "cycleTracer" /\ phase = "TxEnded" /\ Len(gasArgs.states) >= 1)
  => /\ Sum(cyc.cost) = UnsetGasSum(gasArgs.states, 0) - gasArgs.rest
     /\ (\A i \in 1..Len(gasArgs.states) : gasArgs.states[i] # 0)
          => Sum(cyc.cost) = gasArgs.states[1] - gasArgs.rest

C7_Witness ==
  /\ kind = "cycleTracer" /\ phase = "TxEnded"
  /\ gasArgs = [start |-> 3, states |-> <<2, 1, 1>>, rest |-> 0]
  /\ cyc.cost = <<1, 0, 1>>

\* C8: every CaptureState call of the memoryTracer that returns advances
\* opCounter by exactly 1, and the call made with opCounter = k appends one
\* row to the file if and only if k mod 100 = 0.
C8_ResolutionGate ==
  [][(kind = "memoryTracer" /\ call'.name = "CaptureState" /\ ~halted')
     => /\ mem'.opCounter = mem.opCounter + 1
        /\ IF mem.opCounter % 100 = 0
           THEN /\ fs # NoFile /\ Len(fs') = Len(fs) + 1
                /\ SubSeq(fs', 1, Len(fs)) = fs
           ELSE fs' = fs]_vars

C8_Witness ==
  /\ kind = "memoryTracer" /\ call.name = "CaptureState"
  /\ mem.opCounter = 101 /\ fs # NoFile /\ Len(fs) = 3

\* C9 as claimed: after Stop, every CaptureState call is ignored: it appends
\* nothing to any series and changes no tracer state.
C9_StateIgnoredAfterStop ==
  [][(stopped /\ call'.name = "CaptureState")
     => UNCHANGED <<cyc, tim, sto, mem, fs>>]_vars

\* C10: GetResult of the cycleTracer, timingTracer and storageTracer changes
\* no tracer state, and a GetResult that directly follows a GetResult returns
\* the same result.
C10_GetResultIsPure ==
  [][(kind \in SeriesKinds /\ call'.name = "GetResult")
     => /\ UNCHANGED <<cyc, tim, sto, mem, fs, phase, now>>
        /\ call.name = "GetResult" => call'.ret = call.ret]_vars

C10_Witness ==
  /\ kind = "storageTracer" /\ call.name = "GetResult"
  /\ Len(sto.IOUsage) = 2 /\ Len(ReturnedLines) = 3

OwnTable(i) == createCSV(NoFile).file \o inst[i].sampled

\* C12 as claimed: two memoryTracer instances with interleaved callbacks share
\* no mutable state: no callback of either instance fails, and the result an
\* instance returns holds exactly the rows its own callbacks sampled.
C12_InstancesAreIsolated ==
  /\ ~halted
  /\ \A i \in Instances :
       inst[i].phase = "Done"
         => /\ inst[i].ret.err = "nil"
            /\ inst[i].ret.value.lines = OwnTable(i)

\* C13 as claimed: a sample of the memoryTracer that cannot be taken or
\* appended inside CaptureStart, CaptureState or CaptureEnd never halts the
\* host process: the callback returns and the traced execution continues.
C13_SamplingNeverHalts ==
  (kind = "memoryTracer" /\ call.name \in {"CaptureStart", "CaptureState", "CaptureEnd"})
  => ~halted

\* C14 as claimed: a CaptureState call of the cycleTracer whose read of the
\* cycle counter fails appends nothing to the opcode, cycles or cost series.
C14_FailedReadAddsNoRow ==
  [][(kind = "cycleTracer" /\ call'.name = "CaptureState" /\ call'.perfErr)
     => /\ cyc'.opcodes = cyc.opcodes
        /\ cyc'.cycles = cyc.cycles
        /\ cyc'.cost = cyc.cost]_vars

\* the data rows of the table the memoryTracer or the storageTracer holds
DataRows ==
  IF kind = "memoryTracer" THEN (IF fs = NoFile THEN 0 ELSE Len(fs) - 1)
  ELSE Len(sto.IOUsage)

\* C15 as claimed: after CaptureStart of the memoryTracer and the
\* storageTracer, before any CaptureState, the table holds exactly one data
\* row, the baseline sample.
C15_StartRecordsBaseline ==
  (kind \in {"memoryTracer", "storageTracer"} /\ call.name = "CaptureStart")
  => DataRows = 1

\* the CaptureState calls made so far on the cycleTracer, the timingTracer or
\* the storageTracer (whose CaptureEnd appends one more row)
StateCalls ==
  CASE kind = "cycleTracer" -> Len(cyc.opcodes)
    [] kind = "timingTracer" -> Len(tim.opcodes)
    [] OTHER -> Len(sto.IOUsage) - (IF phase \in {"Ended", "TxEnded"} THEN 1 ELSE 0)

\* the header row of the tracer in use
Header ==
  CASE kind = "cycleTracer" -> CyclesToCSV(<<>>, <<>>, <<>>).text[1]
    [] kind = "timingTracer" -> TimingDataToCSV(<<>>, <<>>, <<>>).text[1]
    [] kind = "storageTracer" -> ArraysToCSV(<<>>, <<>>, <<>>).text[1]
    [] OTHER -> createCSV(NoFile).file[1]

\* C16 as claimed: a GetResult of the cycleTracer, timingTracer or
\* storageTracer after a callback sequence without any CaptureState returns,
\* without error, the header row followed by zero or one data rows.
C16_ResultWithoutBoundaries ==
  (kind \in SeriesKinds /\ call.name = "GetResult" /\ StateCalls = 0)
  => /\ call.ret.err = "nil"
     /\ Len(ReturnedLines) \in {1, 2}
     /\ ReturnedLines[1] = Header

\* C17: CaptureFault is a no-op in every tracer: called in any state, it
\* leaves every series, remainingGas, opCounter, the backing file and the
\* position in the lifecycle unchanged, so a later result is the same with or
\* without it.
C17_FaultChangesNothing ==
  [][call'.name = "CaptureFault"
     => UNCHANGED <<cyc, tim, sto, mem, fs, phase, now, stopped, halted, gasArgs>>]_vars

C17_Witness ==
  /\ kind = "cycleTracer" /\ call.name = "CaptureFault" /\ phase = "Ended"
  /\ Len(cyc.opcodes) = 2 /\ Len(cyc.cost) = 1 /\ cyc.remainingGas = 2

\* C18 as claimed: when the gas given to a CaptureState call of the
\* cycleTracer that follows a boundary, or the restGas given to CaptureTxEnd,
\* is greater than the stored remaining gas, the negative difference is
\* appended to the cost series as it is.
C18_NegativeDeltaIsRecorded ==
  [][(kind = "cycleTracer")
     => /\ (/\ call'.name = "CaptureState"
            /\ Len(gasArgs.states) >= 1
            /\ Len(gasArgs'.states) = Len(gasArgs.states) + 1
            /\ gasArgs'.states[Len(gasArgs'.states)] > cyc.remainingGas)
          => cyc'.cost = Append(cyc.cost,
                                cyc.remainingGas - gasArgs'.states[Len(gasArgs'.states)])
        /\ (phase = "Ended" /\ phase' = "TxEnded" /\ gasArgs'.rest > cyc.remainingGas)
          => cyc'.cost = Append(cyc.cost, cyc.remainingGas - gasArgs'.rest)]_vars

\* the budget as the cycleTracer was told it: the gas limit, the gas at each
\* boundary, and the rest gas once CaptureTxEnd was called
GasHistory ==
  <<gasArgs.start>> \o gasArgs.states \o
    (IF phase = "TxEnded" THEN <<gasArgs.rest>> ELSE <<>>)

NonIncreasing(g) == \A i \in 1..(Len(g) - 1) : g[i] >= g[i + 1]

\* C19 as claimed: in every lifecycle of the cycleTracer in which the budget
\* never increases (gas limit >= each boundary gas >= the next >= restGas,
\* with n >= 0 boundaries), every recorded cost is non-negative.
C19_CostIsNonNegative ==
  (kind = "cycleTracer" /\ phase # "Created" /\ NonIncreasing(GasHistory))
  => \A i \in 1..Len(cyc.cost) : cyc.cost[i] >= 0

\* C20 as claimed: after CaptureStart, n >= 1 CaptureState calls with opcodes
\* o1..on and CaptureTxEnd, GetResult of the cycleTracer returns the header
\* row followed by exactly n data rows, the i-th of which names opcode oi.
C20_OneRowPerBoundaryInOrder ==
  (kind = "cycleTracer" /\ phase = "TxEnded" /\ call.name = "GetResult"
     /\ Len(cyc.opcodes) >= 1)
  => /\ Len(ReturnedLines) = 1 + Len(cyc.opcodes)
     /\ ReturnedLines[1] = Header
     /\ \A i \in 1..Len(cyc.opcodes) :
          \E cycles \in {CycleReading, FailedReading}, cost \in (0 - 2)..2 :
            ReturnedLines[i + 1] =
              JoinFields(<<OpString(cyc.opcodes[i]), Itoa(cycles), Itoa(cost)>>)

\* C21 as claimed: the header row of a result of the cycleTracer is exactly
\* opcode, cycles, cost and that of the timingTracer exactly opcode, time,
\* cost, whatever data was recorded.
C21_HeaderNamesOpcode ==
  (HasCostWindow /\ call.name = "GetResult" /\ ReturnedLines # <<>>)
  => ReturnedLines[1] = (IF kind = "cycleTracer" THEN "opcode,cycles,cost"
                         ELSE "opcode,time,cost")

\* C21 amended: every result of the cycleTracer that holds a table starts
\* with the row opcodes, cycles, cost and every such result of the
\* timingTracer with opcodes, time, cost, whatever data was recorded; a
\* result taken while the series differ in length is the empty string and has
\* no header row.
C21_HeaderNamesOpcodes ==
  (HasCostWindow /\ call.name = "GetResult")
  => IF LengthsEqual
     THEN /\ Len(ReturnedLines) = 1 + Len(OpcodeSeries)
          /\ ReturnedLines[1] = (IF kind = "cycleTracer" THEN "opcodes,cycles,cost"
                                 ELSE "opcodes,time,cost")
     ELSE ReturnedLines = <<>>

C21_Witness ==
  /\ kind = "cycleTracer" /\ call.name = "GetResult" /\ phase = "TxEnded"
  /\ Len(ReturnedLines) = 3 /\ ReturnedLines[1] = "opcodes,cycles,cost"

\* C22 as claimed: constructing a memoryTracer with a configuration whose
\* resolution is zero fails with a configuration error, and with no
\* resolution given the tracer is constructed with resolution 100.
C22_ZeroResolutionIsRejected ==
  (kind = "memoryTracer" /\ call.name = "new")
  => /\ (config.given /\ config.resolution = 0) => call.ret.err # "nil"
     /\ ~config.given => (call.ret.err = "nil" /\ mem.resolution = 100)

\* C23 as claimed: every CaptureState call of the timingTracer after the
\* first appends to the cost series the stored remaining gas minus the gas
\* given to the call, and then stores that gas.
C23_TimingCostIsGasDelta ==
  [][(/\ kind = "timingTracer" /\ call'.name = "CaptureState"
      /\ Len(tim.opcodes) >= 1 /\ Len(tim'.opcodes) = Len(tim.opcodes) + 1)
     => tim'.cost = Append(tim.cost, tim.remainingGas - tim'.remainingGas)]_vars

\* C24 as claimed: in the cycleTracer opcodes[i], cycles[i] and cost[i] are
\* appended by the same callback: a callback that appends cost[i] also
\* appends opcodes[i] and cycles[i].
C24_RowFromOneCallback ==
  [][(kind = "cycleTracer" /\ cyc'.cost # cyc.cost)
     => /\ Len(cyc'.opcodes) = Len(cyc.opcodes) + 1
        /\ Len(cyc'.cycles) = Len(cyc.cycles) + 1
        /\ Len(cyc'.cost) = Len(cyc'.opcodes)
        /\ Len(cyc'.cost) = Len(cyc'.cycles)]_vars

\* C24 amended: opcodes[i] and cycles[i] are appended by the same callback,
\* the i-th CaptureState; cost[i] is never appended by that callback but by a
\* later one: a CaptureState appends a cost only at an index whose opcode and
\* cycles were appended by an earlier call, and CaptureTxEnd appends a cost
\* and nothing else.
C24_CostComesFromLaterCallback ==
  [][(kind = "cycleTracer")
     => /\ (cyc'.opcodes # cyc.opcodes \/ cyc'.cycles # cyc.cycles)
             => /\ call'.name = "CaptureState"
                /\ Len(cyc.opcodes) = Len(cyc.cycles)
                /\ Len(cyc'.opcodes) = Len(cyc.opcodes) + 1
                /\ Len(cyc'.cycles) = Len(cyc.cycles) + 1
        /\ (cyc'.cost # cyc.cost)
             => /\ Len(cyc'.cost) = Len(cyc.cost) + 1
                /\ call'.name \in {"CaptureState", "CaptureTxEnd"}
                /\ call'.name = "CaptureState" => Len(cyc'.cost) <= Len(cyc.opcodes)
                /\ call'.name = "CaptureTxEnd"
                     => (cyc'.opcodes = cyc.opcodes /\ cyc'.cycles = cyc.cycles)]_vars

C24_Witness ==
  /\ kind = "cycleTracer" /\ call.name = "CaptureTxEnd"
  /\ Len(cyc.opcodes) = 2 /\ Len(cyc.cycles) = 2 /\ Len(cyc.cost) = 2

\* new is old, or old with one element appended
Grown(old, new) ==
  /\ Len(new) \in {Len(old), Len(old) + 1}
  /\ SubSeq(new, 1, Len(old)) = old

\* C25: the series of the cycleTracer, timingTracer and storageTracer are
\* append-only: across every callback each series keeps its previous contents
\* as a prefix and grows by at most one element.
C25_SeriesAreAppendOnly ==
  [][/\ Grown(cyc.opcodes, cyc'.opcodes) /\ Grown(cyc.cycles, cyc'.cycles)
     /\ Grown(cyc.cost, cyc'.cost)
     /\ Grown(tim.opcodes, tim'.opcodes) /\ Grown(tim.timings, tim'.timings)
     /\ Grown(tim.cost, tim'.cost)
     /\ Grown(sto.IOReadBytes, sto'.IOReadBytes)
     /\ Grown(sto.IOWriteBytes, sto'.IOWriteBytes)
     /\ Grown(sto.IOUsage, sto'.IOUsage)]_vars

C25_Witness ==
  /\ kind = "storageTracer" /\ call.name = "CaptureState"
  /\ sto.IOReadBytes = <<0, 1>> /\ sto.IOWriteBytes = <<1, 1>> /\ sto.IOUsage = <<1, 2>>

\* the least integer not below n / d
CeilDiv(n, d) == (n + d - 1) \div d

\* C26: CaptureEnd of the memoryTracer appends one final row whatever
\* opCounter is; after CaptureStart, n CaptureState calls and CaptureEnd the
\* file holds the header and exactly ceil(n / 100) + 1 data rows.
C26_EndAppendsFinalSample ==
  [][(kind = "memoryTracer" /\ call'.name = "CaptureEnd" /\ ~halted')
     => /\ fs # NoFile /\ fs' # NoFile
        /\ Len(fs') = Len(fs) + 1 /\ SubSeq(fs', 1, Len(fs)) = fs
        /\ mem'.opCounter = mem.opCounter
        /\ Len(fs') = 1 + CeilDiv(mem.opCounter, 100) + 1]_vars

C26_Witness ==
  /\ kind = "memoryTracer" /\ call.name = "CaptureEnd" /\ ~halted
  /\ mem.opCounter = 101 /\ fs # NoFile /\ Len(fs) = 4

\* the six lists of the memoryTransactionTracer
MttLists(t) ==
  <<t.heapAllocList, t.heapSysList, t.heapIdleList, t.heapInuseList,
    t.stackInUseList, t.stackSysList>>

\* C27: the memoryTransactionTracer samples only at CaptureStart and
\* CaptureEnd: CaptureState leaves the six lists unchanged, the six lists
\* have equal length in every state, GetResult never returns the
\* length-mismatch error, and after a complete lifecycle the result holds the
\* header and exactly two data rows.
C27_SamplesAtStartAndEndOnly ==
  [][(kind = "memoryTransactionTracer")
     => /\ call'.name = "CaptureState" => MttLists(mtt') = MttLists(mtt)
        /\ \A i \in 1..6 : Len(MttLists(mtt')[i]) = Len(mtt'.heapAllocList)
        /\ Len(mtt'.heapAllocList) =
             (CASE phase' \in {"Created", "TxStarted"} -> 0
                [] phase' = "Started" -> 1
                [] OTHER -> 2)
        /\ call'.name = "GetResult"
             => /\ call'.ret.err = "nil"
                /\ call'.ret.value.json = "string"
                /\ Len(call'.ret.value.lines) = 1 + Len(mtt'.heapAllocList)]_vars

C27_Witness ==
  /\ kind = "memoryTransactionTracer" /\ phase = "TxEnded" /\ call.name = "GetResult"
  /\ Len(ReturnedLines) = 3 /\ ReturnedLines[2] = "0,0,0,0,0,0"
  /\ ReturnedLines[3] = "1,1,0,1,0,0"

C29_TimeIsSincePreviousSample ==
  [][(kind = "timingTracer" /\ call'.name = "CaptureState"
        /\ Len(tim'.opcodes) = Len(tim.opcodes) + 1)
     => /\ tim.time <= now /\ now <= now'
        /\ \E since \in tim.time..now' :
             tim'.timings = Append(tim.timings, since - tim.time)
        /\ tim'.time = now'
        /\ \A i \in 1..Len(tim'.timings) : tim'.timings[i] >= 0
        /\ Sum(tim'.timings) <= now']_vars

C29_Witness ==
  /\ kind = "timingTracer" /\ call.name = "CaptureState"
  /\ tim.timings = <<0, 1, 0>> /\ now = 1 /\ tim.time = 1

\* C30: over a lifecycle of the cycleTracer without counter failures the
\* starts and stops of the cycle counter alternate, beginning with a start:
\* at most one counter is ever open, every CaptureState stops the open
\* counter and starts a new one, and after CaptureTxEnd none is open, with
\* n + 1 starts and n + 1 stops.
C30_CounterStartsAndStopsAlternate ==
  [][(kind = "cycleTracer" /\ PerfFailures(cyc') = 0)
     => /\ cyc'.peak <= 1
        /\ cyc'.starts - cyc'.stops =
             (IF phase' \in {"Started", "Ended"} THEN 1 ELSE 0)
        /\ (call'.name = "CaptureState" /\ Len(cyc'.opcodes) = Len(cyc.opcodes) + 1)
             => /\ cyc.starts - cyc.stops = 1
                /\ cyc'.stops = cyc.stops + 1 /\ cyc'.starts = cyc.starts + 1
        /\ phase' = "TxEnded"
             => /\ cyc'.starts = Len(cyc'.opcodes) + 1
                /\ cyc'.stops = Len(cyc'.opcodes) + 1]_vars

C30_Witness ==
  /\ kind = "cycleTracer" /\ call.name = "CaptureTxEnd" /\ PerfFailures(cyc) = 0
  /\ Len(cyc.opcodes) = 3 /\ cyc.starts = 4 /\ cyc.stops = 4 /\ cyc.peak = 1

\* C31: for a lifecycle of the cycleTracer with n >= 1 CaptureState calls
\* whose gas values g1..gn are all non-zero, followed by CaptureTxEnd(r), the
\* cost series is exactly [g1 - g2, ..., g(n-1) - gn, gn - r] and sums to
\* g1 - r, whatever value CaptureTxStart was given.
C31_CostTelescopes ==
  (/\ kind = "cycleTracer" /\ phase = "TxEnded" /\ Len(gasArgs.states) >= 1
   /\ \A i \in 1..Len(gasArgs.states) : gasArgs.states[i] # 0)
  => /\ cyc.cost = Deltas(gasArgs.states) \o
                     <<gasArgs.states[Len(gasArgs.states)] - gasArgs.rest>>
     /\ Sum(cyc.cost) = gasArgs.states[1] - gasArgs.rest

C31_Witness ==
  /\ kind = "cycleTracer" /\ phase = "TxEnded"
  /\ gasArgs = [start |-> 2, states |-> <<1, 2, 1>>, rest |-> 2]
  /\ cyc.cost = <<0 - 1, 1, 0 - 1>>

====
